---- MODULE Spec2Model ----
(***************************************************************************)
(* Model of the typed parameter store `Parameters` of src/types.py.        *)
(*                                                                         *)
(* A Python object is a record [cls, s, items]: cls is the name of its     *)
(* concrete class, s its text payload (the characters of a str, the        *)
(* content of a bytes, the literal of a number as repr writes it, the      *)
(* name of the instance for an object()) and items the sequence of         *)
(* elements its iteration yields (the keys, for a dict, whose values are   *)
(* all 1).  Texts are made of ASCII letters and digits; a float's literal  *)
(* is in positional notation.                                              *)
(*                                                                         *)
(* A store's `_storage` dict is the sequence of its entries                *)
(* [key, tf, value] in insertion order, one entry per key (storage), and   *)
(* the key column of the dict's entry table, which keeps a dummy where an  *)
(* entry was removed (table).  gen is the generator made by iterspecs().   *)
(***************************************************************************)
EXTENDS Integers, Sequences, FiniteSets

VARIABLES storage, table, gen, op, ret

vars == <<storage, table, gen, op, ret>>

(***************************************************************************)
(* Python objects                                                          *)
(***************************************************************************)
V(cls, s) == [cls |-> cls, s |-> s, items |-> <<>>]

C(cls, items) == [cls |-> cls, s |-> "", items |-> items]

\* Filler for the value field of an operation that takes no value.
NoValue == V("-", "")

BoolTrue == V("bool", "True")
Int7 == V("int", "7")
IntHuge == V("int", "10**5000")
Float15 == V("float", "1.5")
StrX == V("str", "x")
StrY == V("str", "y")
StrEmpty == V("str", "")
BytesX == V("bytes", "x")
BytesEmpty == V("bytes", "")
NoneV == V("NoneType", "None")
DictEmpty == C("dict", <<>>)
DictK == C("dict", <<V("str", "k")>>)
IntSub3 == V("IntSub", "3")
FloatSub25 == V("FloatSub", "2.5")
StrSubY == V("StrSub", "y")
StrSubEmpty == V("StrSub", "")
BytesSubY == V("BytesSub", "y")
BytesSubEmpty == V("BytesSub", "")
DictSubEmpty == C("DictSub", <<>>)
DictSubJ == C("DictSub", <<V("str", "j")>>)
Obj == V("object", "<object>")

\* Instances of the seven builtin classes of _python_builtins.
Builtins == {BoolTrue, Int7, IntHuge, Float15, StrX, StrEmpty, BytesX,
             BytesEmpty, NoneV, DictEmpty, DictK}

\* Instances of user-defined proper subclasses of those classes (bool and
\* NoneType cannot be subclassed).
Subclassed == {IntSub3, FloatSub25, StrSubY, StrSubEmpty, BytesSubY,
               BytesSubEmpty, DictSubEmpty, DictSubJ}

Scalars == Builtins \cup Subclassed \cup {Obj}

\* dict instances are unhashable and cannot be members of a set.
Hashable == {v \in Scalars : v.cls \notin {"dict", "DictSub"}}

Flat == {C(c, <<>>) : c \in {"list", "tuple", "set", "frozenset"}}
          \cup {C(c, <<e>>) : c \in {"list", "tuple"}, e \in Scalars}
          \cup {C(c, <<e>>) : c \in {"set", "frozenset"}, e \in Hashable}

Nested == {C(c, <<e>>) : c \in {"list", "tuple"},
                         e \in {C("list", <<>>), C("list", <<Int7>>),
                                C("tuple", <<StrX>>), C("set", <<Int7>>)}}

Universe == Scalars \cup Flat \cup Nested

(***************************************************************************)
(* Class relations                                                         *)
(***************************************************************************)
\* The keys of _python_builtins in the dict's order.
BuiltinOrder == <<"bool", "int", "float", "str", "bytes", "NoneType", "dict">>

_python_builtins == [c \in {BuiltinOrder[i] : i \in 1..Len(BuiltinOrder)} |->
    CASE c = "bool" -> "boolean"
      [] c = "int" -> "integer"
      [] c = "float" -> "rational"
      [] c = "str" -> "string"
      [] c = "bytes" -> "octets"
      [] c = "NoneType" -> "void"
      [] c = "dict" -> "parameters"]

\* The classes of a class's method resolution order (object left out).
Mro(cls) ==
    CASE cls = "bool" -> {"bool", "int"}
      [] cls = "IntSub" -> {"IntSub", "int"}
      [] cls = "FloatSub" -> {"FloatSub", "float"}
      [] cls = "StrSub" -> {"StrSub", "str"}
      [] cls = "BytesSub" -> {"BytesSub", "bytes"}
      [] cls = "DictSub" -> {"DictSub", "dict"}
      [] OTHER -> {cls}

isinstance(obj, Type) == Type \in Mro(obj.cls)

IsText(obj) == isinstance(obj, "str") \/ isinstance(obj, "bytes")

IsContainer(obj) ==
    \/ obj.cls \in {"list", "tuple", "set", "frozenset"}
    \/ isinstance(obj, "dict")

Digits == "0123456789"

Upper == "ABCDEFGHIJKLMNOPQRSTUVWXYZ"

Lower == "abcdefghijklmnopqrstuvwxyz"

Within(text, ch) == \E i \in 1..Len(text) : SubSeq(text, i, i) = ch

IndexIn(text, ch) == CHOOSE i \in 1..Len(text) : SubSeq(text, i, i) = ch

\* The code of an ASCII letter or digit.
ord(ch) ==
    IF Within(Digits, ch) THEN 47 + IndexIn(Digits, ch)
    ELSE IF Within(Upper, ch) THEN 64 + IndexIn(Upper, ch)
    ELSE 96 + IndexIn(Lower, ch)

\* The decimal literal of a natural number.
RECURSIVE Decimal(_)
Decimal(n) ==
    IF n < 10 THEN SubSeq(Digits, n + 1, n + 1)
    ELSE Decimal(n \div 10) \o SubSeq(Digits, (n % 10) + 1, (n % 10) + 1)

\* The first element of a non-empty text: its first character for a str,
\* the code of its first byte for a bytes.
FirstOfText(obj) ==
    IF isinstance(obj, "str") THEN V("str", Head(obj.s))
    ELSE V("int", Decimal(ord(Head(obj.s))))

\* IterFirst with the exhausted iterator's StopIteration taken by the
\* general handler, as if the object were not iterable.
IterFirstAnyException(obj) ==
    IF (IsText(obj) /\ obj.s # "")
    THEN [exc |-> "", first |-> FirstOfText(obj)]
    ELSE IF (IsContainer(obj) /\ obj.items # <<>>)
    THEN [exc |-> "", first |-> Head(obj.items)]
    ELSE [exc |-> "TypeError", first |-> NoValue]

\* iter(obj); next(i): "TypeError" when obj is not iterable, "StopIteration"
\* when it is empty, and its first element otherwise.
IterFirst(obj) ==
    IF IsText(obj)
    THEN IF obj.s = "" THEN [exc |-> "StopIteration", first |-> NoValue]
         ELSE [exc |-> "", first |-> FirstOfText(obj)]
    ELSE IF IsContainer(obj)
    THEN IF obj.items = <<>> THEN [exc |-> "StopIteration", first |-> NoValue]
         ELSE [exc |-> "", first |-> Head(obj.items)]
    ELSE [exc |-> "TypeError", first |-> NoValue]

(***************************************************************************)
(* Typeforms and classification                                            *)
(***************************************************************************)
Tf(form, type) == [form |-> form, type |-> type]

\* The tag slot of an entry whose typeform is Python's None.
NoneTf == Tf("None", "None")

\* An exception leaving identify_object_typeform.
RaiseTf(exc) == Tf("raise", exc)

\* The loop "for Type, stype in _python_builtins.items()" from position i.
RECURSIVE SubclassScan(_, _)
SubclassScan(obj, i) ==
    IF i > Len(BuiltinOrder) THEN NoneTf
    ELSE IF isinstance(obj, BuiltinOrder[i])
         THEN Tf("value", _python_builtins[BuiltinOrder[i]])
         ELSE SubclassScan(obj, i + 1)

\* The fall-through of identify_object_typeform: the subclass loop, and None
\* when no class matches.
CoverSubclass(obj) == SubclassScan(obj, 1)

RECURSIVE identify_object_typeform(_)
identify_object_typeform(obj) ==
    IF obj.cls \in DOMAIN _python_builtins
    THEN Tf("value", _python_builtins[obj.cls])
    ELSE LET it == IterFirst(obj) IN
         IF it.exc = "StopIteration" THEN RaiseTf("ValueError")
         ELSE IF it.exc # "" THEN CoverSubclass(obj)
         ELSE LET tf == identify_object_typeform(it.first) IN
              IF tf.form = "raise" THEN tf
              ELSE IF tf = NoneTf THEN RaiseTf("TypeError")
              ELSE IF tf.form \notin {"value", "representation"}
                   THEN RaiseTf("AssertionError")
              ELSE IF isinstance(obj, "set") THEN Tf("v-set", tf.type)
              ELSE Tf("v-sequence", tf.type)

(***************************************************************************)
(* Results of a call                                                       *)
(***************************************************************************)
\* What a call gives back: kind names the shape ("None", "raise", "pair" a
\* (typeform, value) tuple, "str", "value", "tf", "specs" a list of
\* specifications, "generator", "yield" one specification, "store" a new
\* Parameters instance, "bool").
Ret(kind, exc, tf, value, seq) ==
    [kind |-> kind, exc |-> exc, tf |-> tf, value |-> value, seq |-> seq]

RetNone == Ret("None", "", NoneTf, NoValue, <<>>)

RetRaise(exc) == Ret("raise", exc, NoneTf, NoValue, <<>>)

RetPair(tf, value) == Ret("pair", "", tf, value, <<>>)

RetStr(s) == Ret("str", "", NoneTf, V("str", s), <<>>)

RetValue(value) == Ret("value", "", NoneTf, value, <<>>)

RetTf(tf) == Ret("tf", "", tf, NoValue, <<>>)

RetSpecs(seq) == Ret("specs", "", NoneTf, NoValue, seq)

\* A generator object, not yet run.
RetGenerator == Ret("generator", "", NoneTf, NoValue, <<>>)

\* The specification a generator yields at a next().
RetYield(spec) == Ret("yield", "", NoneTf, NoValue, <<spec>>)

RetStore(seq) == Ret("store", "", NoneTf, NoValue, seq)

RetBool(b) == Ret("bool", "", NoneTf, IF b THEN BoolTrue ELSE V("bool", "False"), <<>>)

\* A method's outcome: the store's dict afterwards and what the call gave.
Out(s, r) == [storage |-> s, ret |-> r]

(***************************************************************************)
(* dict                                                                    *)
(***************************************************************************)
Entry(key, tf, value) == [key |-> key, tf |-> tf, value |-> value]

KeysOf(s) == {s[i].key : i \in 1..Len(s)}

Has(s, key) == key \in KeysOf(s)

\* s[key], for a key of s.
Item(s, key) == s[CHOOSE i \in 1..Len(s) : s[i].key = key]

\* s[key] = (tf, value): an existing key keeps its place, a new one is
\* appended.
DictSet(s, key, tf, value) ==
    IF Has(s, key)
    THEN [i \in 1..Len(s) |->
            IF s[i].key = key THEN Entry(key, tf, value) ELSE s[i]]
    ELSE Append(s, Entry(key, tf, value))

\* s after s.pop(key, None).
DictPop(s, key) == SelectSeq(s, LAMBDA e : e.key # key)

(***************************************************************************)
(* dict: the entry table                                                   *)
(***************************************************************************)
\* An entry of the table holds a key; the entry of a removed key stays in
\* the table as a dummy.
Slot(key) == [live |-> TRUE, key |-> key]

Dummy == [live |-> FALSE, key |-> ""]

\* The table: its entries in the order they were made, and the number of
\* entries it has room for.
Table(slots, room) == [slots |-> slots, room |-> room]

\* The smallest power of two, from size on, that is greater than y.
RECURSIVE PowerOver(_, _)
PowerOver(size, y) == IF size > y THEN size ELSE PowerOver(2 * size, y)

\* The size of the table made for minsize entries, 2 ^ bit_length of
\* ((minsize | 8) - 1) | 7: 8 for no entry, 16 for 1 to 15 entries.
KeysSize(minsize) ==
    LET or8 == IF (minsize \div 8) % 2 = 1 THEN minsize ELSE minsize + 8
        x == or8 - 1
    IN PowerOver(1, x - (x % 8) + 7)

\* The room of the table made when a dict of used keys is rebuilt: two
\* thirds of the size made for 3 * used entries.
Usable(used) == (2 * KeysSize(3 * used)) \div 3

\* The table of dict() and of an empty dict display.
NewTable == Table(<<>>, Usable(0))

\* The keys of the table's live entries, in the table's order.
LiveKeys(t) ==
    LET live == SelectSeq(t.slots, LAMBDA e : e.live) IN
    [i \in 1..Len(live) |-> live[i].key]

\* The table after pop(key, None): the key's entry becomes a dummy.
TablePop(t, key) ==
    Table([i \in 1..Len(t.slots) |->
              IF t.slots[i] = Slot(key) THEN Dummy ELSE t.slots[i]],
          t.room)

\* The table after d[key] = x: the entry of a present key is reused; a new
\* key gets the next entry, and when none is left the table is rebuilt
\* with the live entries alone.
TableSet(t, key) ==
    IF \E i \in 1..Len(t.slots) : t.slots[i] = Slot(key) THEN t
    ELSE IF Len(t.slots) >= t.room
    THEN LET kept == SelectSeq(t.slots, LAMBDA e : e.live) IN
         Table(Append(kept, Slot(key)), Usable(Len(kept)))
    ELSE Table(Append(t.slots, Slot(key)), t.room)

\* A statement on the dict: "pop" or "set" of a key.
DictOp(name, key) == [name |-> name, key |-> key]

RECURSIVE TableAfter(_, _)
TableAfter(t, ops) ==
    IF ops = <<>> THEN t
    ELSE TableAfter(IF Head(ops).name = "pop" THEN TablePop(t, Head(ops).key)
                    ELSE TableSet(t, Head(ops).key),
                    Tail(ops))

(***************************************************************************)
(* Object equality and str()                                               *)
(***************************************************************************)
\* The class that decides ==: an instance of a subclass equals the instance
\* of its base with the same content, a frozenset equals the set with the
\* same members, and bool, int and float compare as numbers.
EqClass(cls) ==
    CASE cls \in {"bool", "int", "IntSub", "float", "FloatSub"} -> "number"
      [] cls = "StrSub" -> "str"
      [] cls = "BytesSub" -> "bytes"
      [] cls = "DictSub" -> "dict"
      [] cls = "frozenset" -> "set"
      [] OTHER -> cls

\* A number's value, written as a float literal: True is 1, False is 0, an
\* int's literal gets its ".0", and -0.0 is 0.0.
NumText(v) ==
    IF v.cls = "bool" THEN (IF v.s = "True" THEN "1.0" ELSE "0.0")
    ELSE IF isinstance(v, "int") THEN v.s \o ".0"
    ELSE IF v.s = "-0.0" THEN "0.0"
    ELSE v.s

\* What == compares of an object: the value of a number, the text of a str
\* or bytes, the elements of a list or tuple in their order, the members of
\* a set and the keys of a dict in no order, the instance of an object().
RECURSIVE EqForm(_)
EqForm(v) ==
    IF EqClass(v.cls) = "number"
    THEN [cls |-> "number", s |-> NumText(v), items |-> <<>>, members |-> {}]
    ELSE IF EqClass(v.cls) \in {"set", "dict"}
    THEN [cls |-> EqClass(v.cls), s |-> "", items |-> <<>>,
          members |-> {EqForm(v.items[i]) : i \in 1..Len(v.items)}]
    ELSE [cls |-> EqClass(v.cls), s |-> v.s,
          items |-> [i \in 1..Len(v.items) |-> EqForm(v.items[i])],
          members |-> {}]

\* v == w
PyEq(v, w) == EqForm(v) = EqForm(w)

\* hash(v) raises TypeError: a list, a set, a dict, or a tuple or frozenset
\* that holds one.
RECURSIVE Unhashable(_)
Unhashable(v) ==
    \/ v.cls \in {"list", "set"}
    \/ isinstance(v, "dict")
    \/ \E i \in 1..Len(v.items) : Unhashable(v.items[i])

\* Whether str(value) raises: the decimal conversion of an int of more than
\* 4300 digits raises ValueError, also as an element of a container.
RECURSIVE StrRaises(_)
StrRaises(value) ==
    \/ (isinstance(value, "int") /\ value.s = IntHuge.s)
    \/ \E i \in 1..Len(value.items) : StrRaises(value.items[i])

\* The texts of seq joined by ", ".
RECURSIVE Join(_)
Join(seq) ==
    IF seq = <<>> THEN ""
    ELSE IF Len(seq) = 1 THEN seq[1]
    ELSE seq[1] \o ", " \o Join(Tail(seq))

\* repr(v): the quoted text of a str, the b'..' literal of a bytes, the
\* display of a container, the literal otherwise.
RECURSIVE repr(_)
repr(v) ==
    LET elements == Join([i \in 1..Len(v.items) |-> repr(v.items[i])]) IN
    IF isinstance(v, "str") THEN "'" \o v.s \o "'"
    ELSE IF isinstance(v, "bytes") THEN "b'" \o v.s \o "'"
    ELSE IF isinstance(v, "dict")
    THEN "{" \o Join([i \in 1..Len(v.items) |-> repr(v.items[i]) \o ": 1"])
             \o "}"
    ELSE IF v.cls = "list" THEN "[" \o elements \o "]"
    ELSE IF v.cls = "tuple"
    THEN "(" \o elements \o (IF Len(v.items) = 1 THEN "," ELSE "") \o ")"
    ELSE IF v.cls = "set"
    THEN (IF v.items = <<>> THEN "set()" ELSE "{" \o elements \o "}")
    ELSE IF v.cls = "frozenset"
    THEN (IF v.items = <<>> THEN "frozenset()"
          ELSE "frozenset({" \o elements \o "})")
    ELSE v.s

\* str(value): the text itself for a str (as an exact str), repr(value)
\* otherwise.
str_(value) ==
    IF isinstance(value, "str") THEN V("str", value.s)
    ELSE V("str", repr(value))

\* The distinct members of strings, the first of equal members kept.
RECURSIVE Dedup(_)
Dedup(strings) ==
    IF strings = <<>> THEN <<>>
    ELSE LET rest == Dedup(SubSeq(strings, 1, Len(strings) - 1))
             x == strings[Len(strings)]
         IN IF \E i \in 1..Len(rest) : PyEq(rest[i], x) THEN rest
            ELSE Append(rest, x)

\* The orders in which the elements of p can be presented.
Orderings(p) ==
    LET n == Len(p)
        bij == {f \in [1..n -> 1..n] : \A i, j \in 1..n : f[i] = f[j] => i = j}
    IN {[i \in 1..n |-> p[f[i]]] : f \in bij}

\* set(strings): a set of the distinct members of strings.  The order in
\* which its iteration yields them is the order of the hashes, which the
\* program does not determine: every order is a possible set.
set_(strings) == {C("set", q) : q \in Orderings(Dedup(strings))}

(***************************************************************************)
(* Parameters: methods                                                     *)
(***************************************************************************)
get_parameter(s, key) ==
    IF Has(s, key) THEN Out(s, RetValue(Item(s, key).value))
    ELSE Out(s, RetRaise("KeyError"))

\* set_parameter returning the entry it stores instead of the one it popped.
set_parameter_returns_new(s, key, value) ==
    LET tf == identify_object_typeform(value) IN
    IF tf.form = "raise" THEN Out(s, RetRaise(tf.type))
    ELSE Out(DictSet(DictPop(s, key), key, tf, value), RetPair(tf, value))

set_parameter(s, key, value) ==
    LET tf == identify_object_typeform(value) IN
    IF tf.form = "raise" THEN Out(s, RetRaise(tf.type))
    ELSE LET last == IF Has(s, key)
                     THEN RetPair(Item(s, key).tf, Item(s, key).value)
                     ELSE RetNone
         IN Out(DictSet(DictPop(s, key), key, tf, value), last)

\* self.set_parameter(key, value), its result dropped.
__setitem__(s, key, value) ==
    LET o == set_parameter(s, key, value) IN
    Out(o.storage, IF o.ret.kind = "raise" THEN o.ret ELSE RetNone)

\* self.get_parameter(key), its result dropped (the method has no return).
__getitem__(s, key) ==
    LET o == get_parameter(s, key) IN
    Out(o.storage, IF o.ret.kind = "raise" THEN o.ret ELSE RetNone)

\* update's loop over pairiter: the pairs before a failing one stay applied.
RECURSIVE update(_, _)
update(s, pairiter) ==
    IF pairiter = <<>> THEN Out(s, RetNone)
    ELSE LET k == Head(pairiter)[1]
             v == Head(pairiter)[2]
             tf == identify_object_typeform(v)
         IN IF tf.form = "raise" THEN Out(s, RetRaise(tf.type))
            ELSE update(DictSet(s, k, tf, v), Tail(pairiter))

set_excluded(s, key, value) ==
    Out(DictSet(s, key, Tf("value", "excluded"), value), RetNone)

set_reference(s, key, target) ==
    IF ~Has(s, target) THEN Out(s, RetRaise("KeyError"))
    ELSE IF Item(s, target).tf = NoneTf THEN Out(s, RetRaise("TypeError"))
    ELSE LET t == Item(s, target).tf.type IN
         Out(DictSet(s, key, Tf("reference", t), V("str", target)), RetStr(t))

set_identifier(s, key, value) ==
    Out(DictSet(s, key, Tf("value", "identifier"), value), RetNone)

\* set_system_file storing set_identifier's typeform.
set_system_file_as_identifier(s, key, value) ==
    Out(DictSet(s, key, Tf("value", "identifier"), value), RetNone)

set_system_file(s, key, value) ==
    Out(DictSet(s, key, Tf("value", "system-file-path"), value), RetNone)

\* The pop runs before str(value) is evaluated.
set_rvalue(s, type, key, value) ==
    LET last == IF Has(s, key)
                THEN RetPair(Item(s, key).tf, Item(s, key).value)
                ELSE RetNone
        popped == DictPop(s, key)
    IN IF StrRaises(value) THEN Out(popped, RetRaise("ValueError"))
       ELSE Out(DictSet(popped, key, Tf("representation", type), str_(value)),
                last)

\* collection is the object Collection(strings) gives, one of set_(strings);
\* an unhashable member makes set(strings) raise before the assignment.
set_rset(s, type, key, strings, collection) ==
    IF \E i \in 1..Len(strings) : Unhashable(strings[i])
    THEN Out(s, RetRaise("TypeError"))
    ELSE Out(DictSet(s, key, Tf("r-set", type), collection), RetNone)

set_rsequence(s, type, key, strings) ==
    Out(DictSet(s, key, Tf("r-sequence", type), C("list", strings)), RetNone)

\* The generator of iterspecs: state is "none" (no generator is made),
\* "created" (made, not yet run), "running" (suspended at the yield) or
\* "finished"; a running generator holds the iterator of
\* self._storage.items(): used, the length of the dict when the iterator
\* was made, pos, the number of table entries it has passed, and len, the
\* number of items it has yet to give.
Generator(state, used, pos, len) ==
    [state |-> state, used |-> used, pos |-> pos, len |-> len]

NoGenerator == Generator("none", 0, 0, 0)

Finished == Generator("finished", 0, 0, 0)

\* self.iterspecs(): the call makes the generator and runs none of it.
iterspecs_call == Generator("created", 0, 0, 0)

\* What a next() gives: the generator afterwards and the result.
Resumed(g, r) == [gen |-> g, ret |-> r]

\* next(g) on the dict of entries s and table t.  The first next() makes
\* the iterator of the dict's items.  The iterator raises RuntimeError when
\* the dict's length is no longer the one it was made with, ends when no
\* live entry is left after its position, and raises RuntimeError when it
\* finds one after it has given as many items as the dict had; the loop
\* body raises TypeError on a typeform that is None.
iterspecs_next(g, s, t) ==
    IF g.state \in {"none", "finished"}
    THEN Resumed(Finished, RetRaise("StopIteration"))
    ELSE LET it == IF g.state = "created"
                   THEN Generator("running", Len(s), 0, Len(s))
                   ELSE g
             ahead == {i \in (it.pos + 1)..Len(t.slots) : t.slots[i].live}
         IN IF it.used # Len(s)
            THEN Resumed(Finished, RetRaise("RuntimeError"))
            ELSE IF ahead = {}
            THEN Resumed(Finished, RetRaise("StopIteration"))
            ELSE IF it.len = 0
            THEN Resumed(Finished, RetRaise("RuntimeError"))
            ELSE LET i == CHOOSE j \in ahead : \A h \in ahead : j <= h
                     e == Item(s, t.slots[i].key)
                 IN IF e.tf = NoneTf
                    THEN Resumed(Finished, RetRaise("TypeError"))
                    ELSE Resumed(Generator("running", it.used, i, it.len - 1),
                                 RetYield(<<e.tf.form, e.tf.type, e.key,
                                            e.value>>))

\* The consumption of generator g to its end, no call on the store in
\* between: the specifications yielded and the exception that ends it ("" at
\* StopIteration).
RECURSIVE Consume(_, _, _)
Consume(g, s, t) ==
    LET n == iterspecs_next(g, s, t) IN
    IF n.ret.kind = "yield"
    THEN LET rest == Consume(n.gen, s, t) IN
         [yielded |-> n.ret.seq \o rest.yielded, exc |-> rest.exc]
    ELSE [yielded |-> <<>>,
          exc |-> IF n.ret.exc = "StopIteration" THEN "" ELSE n.ret.exc]

\* __eq__ comparing the entries in insertion order.
eq_in_order(self, operand) == operand = self

\* operand._storage == self._storage: dict equality, whatever the order.
__eq__(self, operand) ==
    /\ KeysOf(operand) = KeysOf(self)
    /\ Len(operand) = Len(self)
    /\ \A k \in KeysOf(self) :
          /\ Item(operand, k).tf = Item(self, k).tf
          /\ PyEq(Item(operand, k).value, Item(self, k).value)

(***************************************************************************)
(* Parameters: constructors                                                *)
(***************************************************************************)
from_nothing_v1 == <<>>

\* The dict comprehension {k:(tf(v),v) for k,v in iterpairs} from acc on.
RECURSIVE PairsComprehension(_, _)
PairsComprehension(acc, iterpairs) ==
    IF iterpairs = <<>> THEN RetStore(acc)
    ELSE LET k == Head(iterpairs)[1]
             v == Head(iterpairs)[2]
             tf == identify_object_typeform(v)
         IN IF tf.form = "raise" THEN RetRaise(tf.type)
            ELSE PairsComprehension(DictSet(acc, k, tf, v), Tail(iterpairs))

from_pairs_v1(iterpairs) == PairsComprehension(<<>>, iterpairs)

\* The dict comprehension {k:((form,typ),v) for form,typ,k,v in iterspec}.
RECURSIVE SpecsComprehension(_, _)
SpecsComprehension(acc, iterspec) ==
    IF iterspec = <<>> THEN acc
    ELSE LET x == Head(iterspec) IN
         SpecsComprehension(DictSet(acc, x[3], Tf(x[1], x[2]), x[4]),
                            Tail(iterspec))

from_specification_v1(iterspec) == RetStore(SpecsComprehension(<<>>, iterspec))

(***************************************************************************)
(* Inputs                                                                  *)
(***************************************************************************)
\* Longest pair list given to update.
MaxUpdate == 2

\* Longest pair list given to from_pairs_v1 when stores are compared.
MaxPairs == 3

Keys == {"a", "b"}

\* Keys given to set_reference, as the key that refers, and to the set
\* operations that take the typeform from the caller.
SetKeys == {"b"}

\* Values given to set_parameter.
ParamValues == {Int7, StrX, C("list", <<>>), Obj}

\* Values assigned as items.
ItemValues == {Int7, C("set", <<>>)}

\* Pairs of the lists given to update and to the from_pairs_v1 that makes
\* the store.
InputPairs == {<<"a", Int7>>, <<"b", C("tuple", <<>>)>>}

\* Values of the pairs of the stores that are compared.
ComparedValues == {Int7, StrX, C("tuple", <<>>)}

\* Pairs of the lists of the stores that are compared.
ComparedPairs == Keys \X ComparedValues

\* Values given to set_excluded, set_identifier and set_system_file.
OverrideValues == {StrX}

\* Type name given to set_rvalue, set_rset and set_rsequence.
RTypes == {"date"}

\* Values given to set_rvalue.
RValues == {Int7, IntHuge}

\* Iterable of strings given to set_rset and set_rsequence.
RStrings == {<<StrX, StrY, StrX>>}

\* The pair lists of at most n of the given pairs.
PairSeqs(n, pairs) == UNION {[1..m -> pairs] : m \in 0..n}

(***************************************************************************)
(* The store under its operations                                          *)
(***************************************************************************)
\* The call made last: its name and arguments.
Op(name, key, type, value, target, seq) ==
    [name |-> name, key |-> key, type |-> type, value |-> value,
     target |-> target, seq |-> seq]

\* The number of pairs of p that are classified before one fails.
RECURSIVE PairsApplied(_)
PairsApplied(p) ==
    IF p = <<>> THEN 0
    ELSE IF identify_object_typeform(Head(p)[2]).form = "raise" THEN 0
    ELSE 1 + PairsApplied(Tail(p))

\* The statements a call with result r has run on the dict, in their order.
DictOps(call, r) ==
    CASE call.name \in {"set_parameter", "__setitem__"} ->
            IF r.kind = "raise" THEN <<>>
            ELSE <<DictOp("pop", call.key), DictOp("set", call.key)>>
      [] call.name = "set_rvalue" ->
            IF r.kind = "raise" THEN <<DictOp("pop", call.key)>>
            ELSE <<DictOp("pop", call.key), DictOp("set", call.key)>>
      [] call.name \in {"set_excluded", "set_reference", "set_identifier",
                        "set_system_file", "set_rset", "set_rsequence"} ->
            IF r.kind = "raise" THEN <<>> ELSE <<DictOp("set", call.key)>>
      [] call.name = "update" ->
            [i \in 1..PairsApplied(call.seq) |->
                DictOp("set", call.seq[i][1])]
      [] call.name = "from_pairs_v1" ->
            IF r.kind = "raise" THEN <<>>
            ELSE [i \in 1..Len(call.seq) |-> DictOp("set", call.seq[i][1])]
      [] OTHER -> <<>>

\* A call on the store with outcome o; the generator at hand is not run.
Call(o, call) ==
    /\ storage' = o.storage
    /\ table' = TableAfter(table, DictOps(call, o.ret))
    /\ ret' = o.ret
    /\ op' = call
    /\ gen' = gen

\* The store and the table of its dict agree.
TableAgrees == LiveKeys(table) = [i \in 1..Len(storage) |-> storage[i].key]

\* The store is made by from_nothing_v1 or by from_pairs_v1.
Init ==
    /\ ret = RetNone
    /\ gen = NoGenerator
    /\ \/ /\ storage = from_nothing_v1
          /\ table = NewTable
          /\ op = Op("from_nothing_v1", "", "", NoValue, "", <<>>)
       \/ \E p \in PairSeqs(MaxUpdate, InputPairs) :
             LET r == from_pairs_v1(p)
                 call == Op("from_pairs_v1", "", "", NoValue, "", p)
             IN /\ r.kind = "store"
                /\ storage = r.seq
                /\ table = TableAfter(NewTable, DictOps(call, r))
                /\ op = call

SetParameter ==
    \E k \in Keys, v \in ParamValues :
        Call(set_parameter(storage, k, v),
                  Op("set_parameter", k, "", v, "", <<>>))

SetItem ==
    \E k \in Keys, v \in ItemValues :
        Call(__setitem__(storage, k, v),
                  Op("__setitem__", k, "", v, "", <<>>))

GetItem ==
    \E k \in Keys :
        Call(__getitem__(storage, k),
                  Op("__getitem__", k, "", NoValue, "", <<>>))

GetParameter ==
    \E k \in Keys :
        Call(get_parameter(storage, k),
                  Op("get_parameter", k, "", NoValue, "", <<>>))

Update ==
    \E p \in PairSeqs(MaxUpdate, InputPairs) :
        Call(update(storage, p), Op("update", "", "", NoValue, "", p))

SetExcluded ==
    \E k \in SetKeys, v \in OverrideValues :
        Call(set_excluded(storage, k, v),
                  Op("set_excluded", k, "", v, "", <<>>))

SetReference ==
    \E k \in SetKeys, target \in Keys :
        Call(set_reference(storage, k, target),
                  Op("set_reference", k, "", NoValue, target, <<>>))

SetIdentifier ==
    \E k \in SetKeys, v \in OverrideValues :
        Call(set_identifier(storage, k, v),
                  Op("set_identifier", k, "", v, "", <<>>))

SetSystemFile ==
    \E k \in SetKeys, v \in OverrideValues :
        Call(set_system_file(storage, k, v),
                  Op("set_system_file", k, "", v, "", <<>>))

SetRValue ==
    \E type \in RTypes, k \in Keys, v \in RValues :
        Call(set_rvalue(storage, type, k, v),
                  Op("set_rvalue", k, type, v, "", <<>>))

SetRSet ==
    \E type \in RTypes, k \in SetKeys, strings \in RStrings :
        \E collection \in set_(strings) :
            Call(set_rset(storage, type, k, strings, collection),
                      Op("set_rset", k, type, collection, "", strings))

SetRSequence ==
    \E type \in RTypes, k \in SetKeys, strings \in RStrings :
        Call(set_rsequence(storage, type, k, strings),
                  Op("set_rsequence", k, type, NoValue, "", strings))

Next ==
    \/ SetParameter
    \/ SetItem
    \/ GetItem
    \/ GetParameter
    \/ Update
    \/ SetExcluded
    \/ SetReference
    \/ SetIdentifier
    \/ SetSystemFile
    \/ SetRValue
    \/ SetRSet
    \/ SetRSequence

Spec == Init /\ [][Next]_vars

(***************************************************************************)
(* The store and the generator of iterspecs                                *)
(***************************************************************************)
\* Values given to set_parameter while specifications are iterated.
IterValues == {Int7, Obj}

\* Pairs of the list given to the from_pairs_v1 that makes the store.
IterPairs == {<<"a", Int7>>, <<"b", Int7>>}

InitIter ==
    /\ ret = RetNone
    /\ gen = NoGenerator
    /\ \E p \in PairSeqs(MaxUpdate, IterPairs) :
          LET r == from_pairs_v1(p)
              call == Op("from_pairs_v1", "", "", NoValue, "", p)
          IN /\ storage = r.seq
             /\ table = TableAfter(NewTable, DictOps(call, r))
             /\ op = call

\* gen = self.iterspecs()
IterspecsCall ==
    /\ gen' = iterspecs_call
    /\ ret' = RetGenerator
    /\ op' = Op("iterspecs", "", "", NoValue, "", <<>>)
    /\ UNCHANGED <<storage, table>>

\* next(gen)
IterspecsNext ==
    /\ gen.state # "none"
    /\ LET n == iterspecs_next(gen, storage, table) IN
       /\ gen' = n.gen
       /\ ret' = n.ret
    /\ op' = Op("next", "", "", NoValue, "", <<>>)
    /\ UNCHANGED <<storage, table>>

\* list(self.iterspecs()), of a generator of its own.
ListIterspecs ==
    LET it == Consume(iterspecs_call, storage, table) IN
    Call(Out(storage, IF it.exc = "" THEN RetSpecs(it.yielded)
                      ELSE RetRaise(it.exc)),
         Op("list", "", "", NoValue, "", <<>>))

\* Parameters.from_specification_v1(self.iterspecs())
FromSpecification ==
    LET it == Consume(iterspecs_call, storage, table) IN
    Call(Out(storage, IF it.exc = "" THEN from_specification_v1(it.yielded)
                      ELSE RetRaise(it.exc)),
         Op("from_specification_v1", "", "", NoValue, "", <<>>))

\* self.set_parameter(k, v), the generator suspended or not.
IterSetParameter ==
    \E k \in Keys, v \in IterValues :
        Call(set_parameter(storage, k, v),
             Op("set_parameter", k, "", v, "", <<>>))

\* self.set_excluded(k, v), the generator suspended or not.
IterSetExcluded ==
    \E k \in Keys, v \in OverrideValues :
        Call(set_excluded(storage, k, v),
             Op("set_excluded", k, "", v, "", <<>>))

\* self.set_rvalue(type, k, v), the generator suspended or not.
IterSetRValue ==
    \E type \in RTypes, k \in Keys, v \in RValues :
        Call(set_rvalue(storage, type, k, v),
             Op("set_rvalue", k, type, v, "", <<>>))

NextIter ==
    \/ IterspecsCall
    \/ IterspecsNext
    \/ ListIterspecs
    \/ FromSpecification
    \/ IterSetParameter
    \/ IterSetExcluded
    \/ IterSetRValue

SpecIter == InitIter /\ [][NextIter]_vars

(***************************************************************************)
(* Classification alone                                                    *)
(***************************************************************************)
InitClassify ==
    /\ storage = from_nothing_v1
    /\ table = NewTable
    /\ gen = NoGenerator
    /\ ret = RetNone
    /\ op = Op("from_nothing_v1", "", "", NoValue, "", <<>>)

\* Parameters.identify_object_typeform(obj)
Identify ==
    \E obj \in Universe :
        LET tf == identify_object_typeform(obj) IN
        Call(Out(storage, IF tf.form = "raise" THEN RetRaise(tf.type)
                          ELSE IF tf = NoneTf THEN RetNone
                          ELSE RetTf(tf)),
             Op("identify_object_typeform", "", "", obj, "", <<>>))

NextClassify == Identify

SpecClassify == InitClassify /\ [][NextClassify]_vars

(***************************************************************************)
(* Stores made from pair lists and compared                                *)
(***************************************************************************)
\* A pair list is at hand; no store is made yet.
InitPairs ==
    /\ storage = from_nothing_v1
    /\ table = NewTable
    /\ gen = NoGenerator
    /\ ret = RetNone
    /\ \E p \in PairSeqs(MaxPairs, ComparedPairs) :
          op = Op("iterpairs", "", "", NoValue, "", p)

\* Parameters.from_pairs_v1(p), for the pair list at hand: the store made
\* becomes the store at hand.
Construct ==
    /\ op.name = "iterpairs"
    /\ LET r == from_pairs_v1(op.seq) IN
       Call(Out(IF r.kind = "store" THEN r.seq ELSE storage, r),
            Op("from_pairs_v1", "", "", NoValue, "", op.seq))

\* Parameters.from_pairs_v1(q) == store, for the pairs the store at hand was
\* made from, presented in the order q.
Compare ==
    /\ op.name = "from_pairs_v1"
    /\ ret.kind = "store"
    /\ \E q \in Orderings(op.seq) :
          Call(Out(storage, RetBool(__eq__(from_pairs_v1(q).seq, storage))),
               Op("__eq__", "", "", NoValue, "", q))

NextPairs ==
    \/ Construct
    \/ Compare

SpecPairs == InitPairs /\ [][NextPairs]_vars

(***************************************************************************)
(* Notions the claims are stated with                                      *)
(***************************************************************************)
\* The scalar kinds obj is an instance of.
KindsOf(obj) == {c \in DOMAIN _python_builtins : isinstance(obj, c)}

\* obj's class is a proper subclass of a scalar kind.
ProperSubclass(obj) ==
    obj.cls \notin DOMAIN _python_builtins /\ KindsOf(obj) # {}

\* The scalar kind a proper subclass instance derives from.
KindOf(obj) == CHOOSE c \in KindsOf(obj) : TRUE

\* obj is of no scalar kind, of no subclass of one, and not iterable.
Unclassifiable(obj) == KindsOf(obj) = {} /\ ~IsText(obj) /\ ~IsContainer(obj)

\* obj is an empty list, tuple, set or frozenset.
EmptyCollection(obj) ==
    obj.cls \in {"list", "tuple", "set", "frozenset"} /\ obj.items = <<>>

\* identify_object_typeform gives obj a typeform.
Classifiable(obj) == identify_object_typeform(obj).form \notin {"raise", "None"}

\* Key j has the same entry, or none, in s and t.
SameAt(s, t, j) ==
    /\ Has(s, j) <=> Has(t, j)
    /\ Has(s, j) => Item(s, j) = Item(t, j)

\* s holds exactly one entry for each of its keys.
OneEntryPerKey(s) == \A i, j \in 1..Len(s) : s[i].key = s[j].key => i = j

\* No key occurs twice in the pair list p.
DistinctKeys(p) == \A i, j \in 1..Len(p) : p[i][1] = p[j][1] => i = j

\* The key -> (typeform, value) mapping of a store.
Mapping(s) == [k \in KeysOf(s) |-> <<Item(s, k).tf, EqForm(Item(s, k).value)>>]

(***************************************************************************)
(* C6                                                                      *)
(***************************************************************************)
\* C6 as stated: two stores made by from_pairs_v1 from the same pairs in
\* different orders are equal, for every pair list, a list in which a key
\* occurs more than once included.
C6_AnyOrderEqual ==
    op.name = "__eq__" => ret = RetBool(TRUE)

\* C6 amended: two stores made by from_pairs_v1 from the same pairs in
\* different orders are equal, for every pair list in which no key occurs
\* more than once; and two stores are equal exactly when their
\* key -> (typeform, value) mappings are equal.
C6_DistinctKeysOrderEqual ==
    op.name = "__eq__" =>
        /\ DistinctKeys(op.seq) => ret = RetBool(TRUE)
        /\ ret = RetBool(Mapping(from_pairs_v1(op.seq).seq) = Mapping(storage))

\* Two pairs of different keys, compared with the store made from them in
\* the other order.
C6_Witness ==
    /\ op.name = "__eq__"
    /\ Len(op.seq) >= 2
    /\ DistinctKeys(op.seq)
    /\ storage[1].key # op.seq[1][1]
    /\ ret = RetBool(TRUE)

(***************************************************************************)
(* C8                                                                      *)
(***************************************************************************)
\* C8: identify_object_typeform gives an instance of a proper subclass of a
\* scalar kind the typeform ('value', T) of that kind, the iterable kinds
\* (str, bytes, dict) and their empty instances included.
C8_SubclassAsScalar ==
    (op.name = "identify_object_typeform" /\ ProperSubclass(op.value)) =>
        ret = RetTf(Tf("value", _python_builtins[KindOf(op.value)]))

(***************************************************************************)
(* C1                                                                      *)
(***************************************************************************)
\* C1: set_parameter(k, v1) on a store without k returns None; a following
\* set_parameter(k, v2) returns the pair (classify(v1), v1), and afterwards
\* the store holds exactly one entry for k, (classify(v2), v2), every other
\* key's entry unchanged (v1, v2 classifiable).
C1_SetTwiceReturnsPrior ==
    [][(op'.name = "set_parameter" /\ Classifiable(op'.value)) =>
        /\ ~Has(storage, op'.key) => ret' = RetNone
        /\ (op.name = "set_parameter" /\ op.key = op'.key
                /\ Classifiable(op.value)) =>
              /\ ret' = RetPair(identify_object_typeform(op.value), op.value)
              /\ Cardinality({i \in 1..Len(storage') :
                                 storage'[i].key = op'.key}) = 1
              /\ Item(storage', op'.key) =
                    Entry(op'.key, identify_object_typeform(op'.value),
                          op'.value)
              /\ \A j \in Keys \ {op'.key} : SameAt(storage, storage', j)
      ]_vars

\* A second set_parameter of a key has returned the first one's pair, of
\* another classifiable value and typeform than the one now stored: the
\* string returned is a value that set_parameter alone stores as a string.
C1_Witness ==
    /\ op.name = "set_parameter"
    /\ Classifiable(op.value)
    /\ ret = RetPair(Tf("value", "string"), StrX)
    /\ Item(storage, op.key) = Entry(op.key, Tf("value", "integer"), Int7)
    /\ Len(storage) = 2

(***************************************************************************)
(* C2                                                                      *)
(***************************************************************************)
\* The keys a call sets.
KeysSet(call) ==
    IF call.name = "update"
    THEN {call.seq[i][1] : i \in 1..Len(call.seq)}
    ELSE IF call.name \in {"set_parameter", "__setitem__", "set_excluded",
                           "set_reference", "set_identifier",
                           "set_system_file", "set_rvalue", "set_rset",
                           "set_rsequence"}
    THEN {call.key}
    ELSE {}

\* C2: set_reference(key, target) with target present returns the type name
\* target's entry carries and stores key as (('reference', that type name),
\* target); later set operations on target leave key's entry as it is.
C2_ReferenceTagFixed ==
    [][/\ (op'.name = "set_reference" /\ Has(storage, op'.target)) =>
            /\ ret' = RetStr(Item(storage, op'.target).tf.type)
            /\ Has(storage', op'.key)
            /\ Item(storage', op'.key) =
                  Entry(op'.key,
                        Tf("reference", Item(storage, op'.target).tf.type),
                        V("str", op'.target))
       /\ \A k \in KeysOf(storage) \ KeysSet(op') :
             Item(storage, k).tf.form = "reference" =>
                 (Has(storage', k) /\ Item(storage', k) = Item(storage, k))
      ]_vars

(***************************************************************************)
(* C3                                                                      *)
(***************************************************************************)
\* C3: setting an unclassifiable value raises at the set_parameter, update
\* or from_pairs_v1 call, and no entry with an undefined typeform is ever
\* stored.
C3_UnclassifiableRaises ==
    /\ \A i \in 1..Len(storage) : storage[i].tf # NoneTf
    /\ (op.name \in {"set_parameter", "__setitem__"}
            /\ Unclassifiable(op.value)) => ret.kind = "raise"
    /\ (op.name = "update"
            /\ \E i \in 1..Len(op.seq) : Unclassifiable(op.seq[i][2])) =>
          ret.kind = "raise"

(***************************************************************************)
(* C4                                                                      *)
(***************************************************************************)
\* C4: an empty collection makes set_parameter, item assignment, update and
\* from_pairs_v1 fail; set_parameter fails at the call and leaves the store
\* as it was, the key's prior entry included.
C4_EmptyCollectionFails ==
    /\ op.name = "from_pairs_v1" =>
          \A i \in 1..Len(op.seq) : ~EmptyCollection(op.seq[i][2])
    /\ [][/\ (op'.name = "set_parameter" /\ EmptyCollection(op'.value)) =>
               (ret' = RetRaise("ValueError") /\ storage' = storage)
          /\ (op'.name = "__setitem__" /\ EmptyCollection(op'.value)) =>
               (ret' = RetRaise("ValueError") /\ storage' = storage)
          /\ (op'.name = "update"
                /\ \E i \in 1..Len(op'.seq) : EmptyCollection(op'.seq[i][2]))
               => ret'.kind = "raise"
         ]_vars

\* set_parameter of an empty collection has raised on a store that holds the
\* key.
C4_Witness ==
    /\ op.name = "set_parameter"
    /\ EmptyCollection(op.value)
    /\ ret = RetRaise("ValueError")
    /\ Has(storage, op.key)

(***************************************************************************)
(* C5                                                                      *)
(***************************************************************************)
\* The entry a successful set call dictates for its key, on the store s it
\* is made on.
Dictated(call, s) ==
    CASE call.name \in {"set_parameter", "__setitem__"} ->
            Entry(call.key, identify_object_typeform(call.value), call.value)
      [] call.name = "set_excluded" ->
            Entry(call.key, Tf("value", "excluded"), call.value)
      [] call.name = "set_identifier" ->
            Entry(call.key, Tf("value", "identifier"), call.value)
      [] call.name = "set_system_file" ->
            Entry(call.key, Tf("value", "system-file-path"), call.value)
      [] call.name = "set_rvalue" ->
            Entry(call.key, Tf("representation", call.type), str_(call.value))
      [] call.name = "set_rset" ->
            Entry(call.key, Tf("r-set", call.type),
                  C("set", Dedup(call.seq)))
      [] call.name = "set_rsequence" ->
            Entry(call.key, Tf("r-sequence", call.type), C("list", call.seq))
      [] call.name = "set_reference" ->
            Entry(call.key, Tf("reference", Item(s, call.target).tf.type),
                  V("str", call.target))

\* Entry e is the entry f dictated: the same key, typeform and value, the
\* members of a set in whatever order its iteration yields them.
IsDictated(e, f) ==
    IF f.value.cls = "set"
    THEN /\ e.key = f.key
         /\ e.tf = f.tf
         /\ e.value.cls = "set"
         /\ Len(e.value.items) = Len(f.value.items)
         /\ PyEq(e.value, f.value)
    ELSE e = f

\* The first n pairs of p dictate the entries of their keys in after, the
\* last pair of a key deciding; the other keys are as in before.
PairsDictate(p, n, before, after) ==
    \A k \in Keys :
        LET idx == {i \in 1..n : p[i][1] = k} IN
        IF idx = {} THEN SameAt(before, after, k)
        ELSE LET last == CHOOSE i \in idx : \A j \in idx : j <= i
                 v == p[last][2]
             IN /\ Has(after, k)
                /\ Item(after, k) = Entry(k, identify_object_typeform(v), v)

\* C5: after any sequence of operations every key present maps to exactly
\* one entry, the one dictated by the operation that last set the key:
\* each call replaces the entry of its key in full and leaves the entries of
\* the other keys as they were.
C5_TagOfLastSet ==
    /\ OneEntryPerKey(storage)
    /\ op.name = "from_nothing_v1" => storage = <<>>
    /\ op.name = "from_pairs_v1" =>
          PairsDictate(op.seq, Len(op.seq), <<>>, storage)
    /\ [][/\ OneEntryPerKey(storage')
          /\ IF op'.name = "update"
             THEN PairsDictate(op'.seq, PairsApplied(op'.seq), storage,
                               storage')
             ELSE IF KeysSet(op') # {} /\ ret'.kind # "raise"
             THEN /\ Has(storage', op'.key)
                  /\ IsDictated(Item(storage', op'.key),
                                Dictated(op', storage))
                  /\ \A j \in Keys \ {op'.key} : SameAt(storage, storage', j)
             ELSE \A j \in KeysOf(storage') :
                     Has(storage, j) /\ Item(storage, j) = Item(storage', j)
         ]_vars

\* set_rvalue has replaced a reference entry, which it returned, by a
\* representation entry.
C5_Witness ==
    /\ op.name = "set_rvalue"
    /\ ret.kind = "pair"
    /\ ret.tf.form = "reference"
    /\ Item(storage, op.key) =
          Entry(op.key, Tf("representation", op.type), str_(op.value))

(***************************************************************************)
(* C7                                                                      *)
(***************************************************************************)
\* C7: iterspecs() ends and yields one (form, type name, key, value) per
\* stored key and none for another key, the form and type name being the
\* key's stored typeform and the value get_parameter(key); and
\* from_specification_v1(iterspecs(s)) == s.
C7_SpecificationPerKey ==
    /\ op.name = "list" =>
          /\ ret.kind = "specs"
          /\ Len(ret.seq) = Len(storage)
          /\ \A i \in 1..Len(ret.seq) : Has(storage, ret.seq[i][3])
          /\ \A k \in KeysOf(storage) :
                \E i \in 1..Len(ret.seq) :
                    ret.seq[i] = <<Item(storage, k).tf.form,
                                   Item(storage, k).tf.type, k,
                                   get_parameter(storage, k).ret.value>>
    /\ op.name = "from_specification_v1" =>
          /\ ret.kind = "store"
          /\ __eq__(storage, ret.seq)

(***************************************************************************)
(* C9                                                                      *)
(***************************************************************************)
\* Every reference entry of s names a key of s.
NoDangling(s) ==
    \A i \in 1..Len(s) : s[i].tf.form = "reference" => Has(s, s[i].value.s)

\* C9: no operation removes a key, a failed one included; every reference
\* entry names a key present in the store; set_reference on an absent target
\* raises and leaves the store as it was.
C9_KeysNeverRemoved ==
    /\ NoDangling(storage)
    /\ [][/\ KeysOf(storage) \subseteq KeysOf(storage')
          /\ NoDangling(storage')
          /\ (op'.name = "set_reference" /\ ~Has(storage, op'.target)) =>
                (ret'.kind = "raise" /\ storage' = storage)
         ]_vars

(***************************************************************************)
(* C10                                                                     *)
(***************************************************************************)
\* C10: store[key] returns the value get_parameter(key) returns and raises
\* for an absent key; store[key] = v changes the store as
\* set_parameter(key, v) does.
C10_MappingInterface ==
    [][/\ op'.name = "__getitem__" =>
             (ret' = get_parameter(storage, op'.key).ret
                 /\ storage' = storage)
       /\ op'.name = "__setitem__" =>
             storage' = set_parameter(storage, op'.key, op'.value).storage
      ]_vars

====
